---- MODULE Spec2Model ----
(***************************************************************************)
(* Model of the DataLoader of docs/js/draft-value.js (lines 546-574): an   *)
(* in-memory cache in front of fetch().  Every call of load(url) is a      *)
(* separate asynchronous task with two suspension points (await fetch,     *)
(* await resp.json()/resp.text()); tasks interleave at those points only.  *)
(***************************************************************************)
EXTENDS Integers, Sequences, FiniteSets, TLC

\* ------------------------------------------------------------------------
\* Bounds and input sets
\* ------------------------------------------------------------------------

\* number of load() calls made during one run
MaxCalls == 2

Calls == 1..MaxCalls

\* keys that every object literal {} inherits from Object.prototype
ProtoKeys == {"constructor"}

\* locators handed to load(): two ordinary paths and one inherited key
Locators == {"data/w1.json", "data/w1.html"} \cup ProtoKeys

\* response statuses delivered by fetch()
Statuses == {200, 404, 500}

\* value of resp.headers.get('content-type') when the header is absent
NoHeader == "null"

\* declared content types delivered by fetch()
ContentTypes == {NoHeader, "text/html", "application/json",
                 "application/json; charset=utf-8"}

\* response bodies
Bodies == {"", "{\"a\":1}", "{not valid", "<p>hi</p>", "0"}

\* ------------------------------------------------------------------------
\* JavaScript values
\* ------------------------------------------------------------------------

Undefined == [type |-> "undefined", val |-> ""]

\* the value of ({}).constructor
ProtoValue(key) == [type |-> "function", val |-> "Object"]

Str(s) == [type |-> "string", val |-> s]

\* ToBoolean of a value, as applied by if (cache[url])
Truthy(e) ==
  CASE e.type = "undefined" -> FALSE
    [] e.type = "null"      -> FALSE
    [] e.type = "string"    -> e.val # ""
    [] e.type = "number"    -> e.val # "0"
    [] OTHER                -> TRUE

\* the characters of a content-type string
Chars(ct) ==
  CASE ct = "text/html" ->
         <<"t","e","x","t","/","h","t","m","l">>
    [] ct = "application/json" ->
         <<"a","p","p","l","i","c","a","t","i","o","n","/","j","s","o","n">>
    [] ct = "application/json; charset=utf-8" ->
         <<"a","p","p","l","i","c","a","t","i","o","n","/","j","s","o","n",
           ";"," ","c","h","a","r","s","e","t","=","u","t","f","-","8">>
    [] ct = "json" -> <<"j","s","o","n">>
    [] OTHER -> <<>>

\* String.prototype.includes: needle occurs as a contiguous substring
Includes(hay, needle) ==
  \E i \in 0..(Len(hay) - Len(needle)) :
     \A k \in 1..Len(needle) : hay[i + k] = needle[k]

\* resp.headers.get('content-type') || ''
ContentTypeOf(ct) == IF ct = NoHeader THEN <<>> ELSE Chars(ct)

\* variant: contentType === 'application/json'
IsJsonType_Exact(ct) == ContentTypeOf(ct) = Chars("application/json")

\* contentType.includes('json')
IsJsonType(ct) == Includes(ContentTypeOf(ct), Chars("json"))

\* week identifiers of the rankings index
RbWeekIds == {"2024-w1", "2024-w2", "2025-w1", "2025-w2"}

\* the document data/<w>.json of week w
WeekBody(w) == "{\"week_id\":\"" \o w \o "\",\"teams\":[]}"

\* the fragment data/<w>.html of week w
HtmlBody(w) == "<article id=\"" \o w \o "\"></article>"

\* resp.json() rejects with a SyntaxError on these bodies
ParseFails(b) == b \notin {"{\"a\":1}", "0"} \cup {WeekBody(w) : w \in RbWeekIds}

\* the value resp.json() resolves to
JSONParse(b) ==
  CASE b = "{\"a\":1}" -> [type |-> "object", val |-> "a=1"]
    [] b = "0"         -> [type |-> "number", val |-> "0"]
    [] \E w \in RbWeekIds : b = WeekBody(w) ->
         [type |-> "object",
          val |-> "week_id=" \o (CHOOSE w \in RbWeekIds : b = WeekBody(w))]
    [] OTHER           -> Undefined

\* the value resp.text() resolves to
Text(b) == Str(b)

\* resp.ok
Ok(status) == status >= 200 /\ status <= 299

\* ------------------------------------------------------------------------
\* Errors
\* ------------------------------------------------------------------------

NoErr == [kind |-> "none", message |-> ""]

\* the template literal `Failed to load ${url}: ${resp.status}`
Message(u, status) == "Failed to load " \o u \o ": " \o ToString(status)

\* variant: new Error(`Failed to load ${url}`)
RetrievalError_NoStatus(u, status) ==
  [kind |-> "RetrievalError", message |-> "Failed to load " \o u]

\* new Error(`Failed to load ${url}: ${resp.status}`)
RetrievalError(u, status) ==
  [kind |-> "RetrievalError", message |-> Message(u, status)]

\* the SyntaxError resp.json() rejects with
DecodeError == [kind |-> "DecodeError", message |-> "SyntaxError"]

\* the TypeError fetch() or a body read rejects with on a network failure
NetworkError == [kind |-> "NetworkError", message |-> "TypeError"]

\* ------------------------------------------------------------------------
\* State
\* ------------------------------------------------------------------------

VARIABLES
  cache,       \* own properties of the cache object: locator -> value
  pc,          \* position of every load() task
  url,         \* argument of every load() task
  resp,        \* response a task's fetch resolved to
  body,        \* body a task's resp.json()/resp.text() read
  result,      \* value a task returned
  err,         \* error a task threw
  seen,        \* value of cache[url] a task read at line 550
  own,         \* own property of cache for url when the task started
  issued,      \* the task called fetch(url)
  wrote,       \* the task changed the cache
  retrievals,  \* number of fetch(url) calls per locator
  finished,    \* tasks in the order they returned or threw
  nfin,        \* number of tasks already finished when the task started
  firstStored, \* first value stored per locator
  lastStore,   \* task that stored last per locator
  via,         \* exported accessor and argument a task was called through
  stalled      \* tasks whose pending I/O never completes

VARIABLES
  dvData,      \* draft value page: seasons present in data/draft_value.json
  dvSeason,    \* draft value page: currentSeason
  sortState,   \* draft value page: sort key and direction per table
  thead,       \* draft value page: column and arrow shown in each header
  tbody,       \* draft value page: players in row order per table
  dvLast,      \* draft value page: last event handled
  dvPrev       \* draft value page: sortState before the last event

dvVars == <<dvData, dvSeason, sortState, thead, tbody, dvLast, dvPrev>>

VARIABLES
  rb           \* rankings browser: its variables, panels and loadWeek tasks

VARIABLES
  ro           \* rosters page: its variables, team select and content panel

VARIABLES
  sc           \* stats charts: owner checkboxes, list items and rank chart

\* state of the pages that use the loader
pageVars == <<dvVars, rb, ro, sc>>

vars == <<cache, pc, url, resp, body, result, err, seen, own, issued, wrote,
          retrievals, finished, nfin, firstStored, lastStore, via, stalled,
          pageVars>>

NoResp == [status |-> 0, ctype |-> NoHeader]
NoBody == "<unread>"

\* cache[url]: own property first, then the prototype chain
Lookup(c, u) ==
  IF c[u] # Undefined THEN c[u]
  ELSE IF u \in ProtoKeys THEN ProtoValue(u)
  ELSE Undefined

\* the draft value page is not open
NoDraftValue ==
  /\ dvData = {}
  /\ dvSeason = ""
  /\ sortState = <<>>
  /\ thead = <<>>
  /\ tbody = <<>>
  /\ dvLast = <<>>
  /\ dvPrev = <<>>

\* the rankings browser is not open
NoBrowser == rb = <<>>

\* the rosters page is not open
NoRosters == ro = <<>>

\* the stats page is not open
NoChart == sc = <<>>

\* no page is open
InitPages == NoDraftValue /\ NoBrowser /\ NoRosters /\ NoChart

\* the loader right after line 547, for the locators L that will be requested
InitLoader(L) ==
  /\ cache = [u \in L |-> Undefined]
  /\ pc = [c \in Calls |-> "idle"]
  /\ url = [c \in Calls |-> ""]
  /\ resp = [c \in Calls |-> NoResp]
  /\ body = [c \in Calls |-> NoBody]
  /\ result = [c \in Calls |-> Undefined]
  /\ err = [c \in Calls |-> NoErr]
  /\ seen = [c \in Calls |-> Undefined]
  /\ own = [c \in Calls |-> Undefined]
  /\ issued = [c \in Calls |-> FALSE]
  /\ wrote = [c \in Calls |-> FALSE]
  /\ retrievals = [u \in L |-> 0]
  /\ finished = <<>>
  /\ nfin = [c \in Calls |-> 0]
  /\ firstStored = [u \in L |-> Undefined]
  /\ lastStore = [u \in L |-> 0]
  /\ via = [c \in Calls |-> <<"", "">>]
  /\ stalled = {}

Init == InitLoader(Locators) /\ InitPages

\* ------------------------------------------------------------------------
\* load(url), one definition per stretch between suspension points
\* ------------------------------------------------------------------------

\* variant: load without the lookup of line 550
CacheHit_Never(c, u) == FALSE

\* line 550: the cached value is returned when it is truthy
CacheHit(c, u) == Truthy(Lookup(c, u))

\* variant: load without the resp.ok check of line 552
AfterFetch_NoStatusCheck(u, status, ct) ==
  IF IsJsonType(ct) THEN [pc |-> "json", err |-> NoErr]
  ELSE [pc |-> "text", err |-> NoErr]

\* lines 552-559: what the task does with the response of fetch
AfterFetch(u, status, ct) ==
  IF ~Ok(status) THEN [pc |-> "failed", err |-> RetrievalError(u, status)]
  ELSE IF IsJsonType(ct) THEN [pc |-> "json", err |-> NoErr]
  ELSE [pc |-> "text", err |-> NoErr]

\* variant: line 560 as cache[url] = cache[url] || data, line 561 unchanged
AfterBody_KeepFirst(c, u, mode, b) ==
  IF mode = "json" /\ ParseFails(b)
  THEN [pc |-> "failed", err |-> DecodeError, cache |-> c, result |-> Undefined]
  ELSE LET data == IF mode = "json" THEN JSONParse(b) ELSE Text(b)
       IN [pc |-> "done", err |-> NoErr,
           cache |-> IF Truthy(c[u]) THEN c ELSE [c EXCEPT ![u] = data],
           result |-> data]

\* variant: line 560 as cache[url] = cache[url] || data, line 561 as
\* return cache[url]
AfterBody_ReturnStored(c, u, mode, b) ==
  IF mode = "json" /\ ParseFails(b)
  THEN [pc |-> "failed", err |-> DecodeError, cache |-> c, result |-> Undefined]
  ELSE LET data == IF mode = "json" THEN JSONParse(b) ELSE Text(b)
           kept == IF Truthy(c[u]) THEN c[u] ELSE data
       IN [pc |-> "done", err |-> NoErr,
           cache |-> [c EXCEPT ![u] = kept], result |-> kept]

\* variant: the raw body is stored under the locator before it is parsed
AfterBody_StorePartial(c, u, mode, b) ==
  IF mode = "json" /\ ParseFails(b)
  THEN [pc |-> "failed", err |-> DecodeError,
        cache |-> [c EXCEPT ![u] = Text(b)], result |-> Undefined]
  ELSE LET data == IF mode = "json" THEN JSONParse(b) ELSE Text(b)
       IN [pc |-> "done", err |-> NoErr,
           cache |-> [c EXCEPT ![u] = data], result |-> data]

\* variant: line 560 rebuilds the cache with the new entry alone
AfterBody_Replace(c, u, mode, b) ==
  IF mode = "json" /\ ParseFails(b)
  THEN [pc |-> "failed", err |-> DecodeError, cache |-> c, result |-> Undefined]
  ELSE LET data == IF mode = "json" THEN JSONParse(b) ELSE Text(b)
       IN [pc |-> "done", err |-> NoErr,
           cache |-> [x \in DOMAIN c |-> IF x = u THEN data ELSE Undefined],
           result |-> data]

\* variant: a body that does not parse is kept as text instead of failing
AfterBody_FallbackText(c, u, mode, b) ==
  LET data == IF mode = "json" /\ ~ParseFails(b) THEN JSONParse(b) ELSE Text(b)
  IN [pc |-> "done", err |-> NoErr,
      cache |-> [c EXCEPT ![u] = data], result |-> data]

\* lines 556-561: what the task does once the body read settles
AfterBody(c, u, mode, b) ==
  IF mode = "json" /\ ParseFails(b)
  THEN [pc |-> "failed", err |-> DecodeError, cache |-> c, result |-> Undefined]
  ELSE LET data == IF mode = "json" THEN JSONParse(b) ELSE Text(b)
       IN [pc |-> "done", err |-> NoErr,
           cache |-> [c EXCEPT ![u] = data], result |-> data]

\* variant: a task resumes only after every earlier task has finished
Runnable_Serial(t) ==
  /\ t \notin stalled
  /\ \A s \in Calls : s < t => pc[s] \in {"done", "failed"}

\* an await resumes its own task as soon as that task's I/O has completed,
\* whatever the other tasks are waiting for
Runnable(t) == t \notin stalled

\* a call of load(u): lines 549-551
Load(t, u) ==
  /\ pc[t] = "idle"
  /\ \A s \in Calls : s < t => pc[s] # "idle"
  /\ url' = [url EXCEPT ![t] = u]
  /\ seen' = [seen EXCEPT ![t] = Lookup(cache, u)]
  /\ own' = [own EXCEPT ![t] = cache[u]]
  /\ nfin' = [nfin EXCEPT ![t] = Len(finished)]
  /\ IF CacheHit(cache, u)
     THEN /\ pc' = [pc EXCEPT ![t] = "done"]
          /\ result' = [result EXCEPT ![t] = Lookup(cache, u)]
          /\ finished' = Append(finished, t)
          /\ UNCHANGED <<issued, retrievals>>
     ELSE /\ pc' = [pc EXCEPT ![t] = "fetch"]
          /\ issued' = [issued EXCEPT ![t] = TRUE]
          /\ retrievals' = [retrievals EXCEPT ![u] = @ + 1]
          /\ UNCHANGED <<result, finished>>
  /\ UNCHANGED <<cache, resp, body, err, wrote, firstStored, lastStore>>
  /\ UNCHANGED <<stalled, pageVars>>

\* fetch(url) resolves with a response: lines 551-559
FetchResolve(t, status, ct) ==
  /\ pc[t] = "fetch"
  /\ Runnable(t)
  /\ LET r == AfterFetch(url[t], status, ct) IN
       /\ pc' = [pc EXCEPT ![t] = r.pc]
       /\ err' = [err EXCEPT ![t] = r.err]
       /\ finished' = IF r.pc = "failed" THEN Append(finished, t) ELSE finished
  /\ resp' = [resp EXCEPT ![t] = [status |-> status, ctype |-> ct]]
  /\ UNCHANGED <<cache, url, body, result, seen, own, issued, wrote,
                 retrievals, nfin, firstStored, lastStore>>
  /\ UNCHANGED <<via, stalled, pageVars>>

\* fetch(url) rejects (network failure): the rejection leaves load at line 551
FetchReject(t) ==
  /\ pc[t] = "fetch"
  /\ Runnable(t)
  /\ pc' = [pc EXCEPT ![t] = "failed"]
  /\ err' = [err EXCEPT ![t] = NetworkError]
  /\ finished' = Append(finished, t)
  /\ UNCHANGED <<cache, url, resp, body, result, seen, own, issued, wrote,
                 retrievals, nfin, firstStored, lastStore>>
  /\ UNCHANGED <<via, stalled, pageVars>>

\* resp.json() or resp.text() settles with the body read: lines 556-561
BodyResolve(t, b) ==
  /\ pc[t] \in {"json", "text"}
  /\ Runnable(t)
  /\ LET r == AfterBody(cache, url[t], pc[t], b) IN
       /\ pc' = [pc EXCEPT ![t] = r.pc]
       /\ err' = [err EXCEPT ![t] = r.err]
       /\ cache' = r.cache
       /\ result' = [result EXCEPT ![t] = r.result]
       /\ wrote' = [wrote EXCEPT ![t] = (r.cache # cache)]
       /\ firstStored' =
            IF r.pc = "done" /\ lastStore[url[t]] = 0
            THEN [firstStored EXCEPT ![url[t]] = r.cache[url[t]]]
            ELSE firstStored
       /\ lastStore' =
            IF r.pc = "done" THEN [lastStore EXCEPT ![url[t]] = t] ELSE lastStore
  /\ body' = [body EXCEPT ![t] = b]
  /\ finished' = Append(finished, t)
  /\ UNCHANGED <<url, resp, seen, own, issued, retrievals, nfin>>
  /\ UNCHANGED <<via, stalled, pageVars>>

\* the body stream fails while resp.json() or resp.text() reads it
BodyReject(t) ==
  /\ pc[t] \in {"json", "text"}
  /\ Runnable(t)
  /\ pc' = [pc EXCEPT ![t] = "failed"]
  /\ err' = [err EXCEPT ![t] = NetworkError]
  /\ finished' = Append(finished, t)
  /\ UNCHANGED <<cache, url, resp, body, result, seen, own, issued, wrote,
                 retrievals, nfin, firstStored, lastStore>>
  /\ UNCHANGED <<via, stalled, pageVars>>

Next ==
  \/ \E t \in Calls, u \in Locators : Load(t, u) /\ UNCHANGED via
  \/ \E t \in Calls, s \in Statuses, ct \in ContentTypes : FetchResolve(t, s, ct)
  \/ \E t \in Calls : FetchReject(t)
  \/ \E t \in Calls, b \in Bodies : BodyResolve(t, b)
  \/ \E t \in Calls : BodyReject(t)

Spec == Init /\ [][Next]_vars

TypeOK ==
  /\ \A t \in Calls : pc[t] \in {"idle", "fetch", "json", "text", "done", "failed"}
  /\ \A u \in DOMAIN retrievals : retrievals[u] \in 0..MaxCalls

\* ------------------------------------------------------------------------
\* Vocabulary of the properties
\* ------------------------------------------------------------------------

Started(t) == pc[t] # "idle"

\* task s had returned or thrown before task t was called
FinishedBeforeStart(s, t) == \E i \in 1..nfin[t] : finished[i] = s

\* position of a finished task in the completion order
PosOf(t) == CHOOSE i \in 1..Len(finished) : finished[i] = t

\* content types that declare a JSON document
IndicatesJSON(ct) == ct \in {"application/json", "application/json; charset=utf-8"}

\* bodies that are not JSON documents
Malformed(b) == b \in {"", "{not valid", "<p>hi</p>"}

\* the entry the decoding policy assigns to the response task t received
Decoded(t) ==
  IF IndicatesJSON(resp[t].ctype) THEN JSONParse(body[t])
  ELSE [type |-> "string", val |-> body[t]]

\* ------------------------------------------------------------------------
\* C1
\* ------------------------------------------------------------------------

\* C1 (as claimed): a get(L) that starts while an entry E is stored for L
\* (any value a successful retrieval produced, the empty text included)
\* returns E and issues no retrieval.
C1_CacheHit ==
  \A t \in Calls :
    (Started(t) /\ own[t] # Undefined) =>
      /\ ~issued[t]
      /\ pc[t] = "done"
      /\ result[t] = own[t]

\* ------------------------------------------------------------------------
\* C2
\* ------------------------------------------------------------------------

\* C2 (as claimed): at most one retrieval is ever issued per locator.
C2_AtMostOnce == \A u \in Locators : retrievals[u] <= 1

\* C2 (amended): the retrievals issued for L are exactly one per get(L) call
\* that found no truthy value under cache[L] when it started, and none for
\* the other calls.
C2_OnePerMiss ==
  \A u \in Locators :
    retrievals[u] =
      Cardinality({t \in Calls : Started(t) /\ url[t] = u /\ ~Truthy(seen[t])})

\* two calls for one locator each issued a retrieval, or one was served
\* from the cache after the other stored
C2_Witness ==
  \E u \in Locators :
    /\ retrievals[u] = 2
    /\ \A t \in Calls : pc[t] \in {"done", "failed"}

\* ------------------------------------------------------------------------
\* C3
\* ------------------------------------------------------------------------

\* C3 (as claimed): once an entry has been stored for L, every get(L) that
\* returns afterwards returns that same entry.
C3_Stable ==
  \A t \in Calls :
    (pc[t] = "done" /\ firstStored[url[t]] # Undefined) =>
      result[t] = firstStored[url[t]]

\* C3 (amended): a get(L) served from the cache returns the entry stored when
\* it started; a get(L) that issued its own retrieval returns the entry of
\* that retrieval and overwrites the stored one, so the cache holds the entry
\* of the call that stored last.
C3_ServedOrOwn ==
  /\ \A t \in Calls :
       pc[t] = "done" =>
         /\ (~issued[t] /\ own[t] # Undefined) => result[t] = own[t]
         /\ issued[t] => result[t] = Decoded(t)
  /\ \A u \in Locators :
       lastStore[u] # 0 =>
         /\ issued[lastStore[u]]
         /\ cache[u] = result[lastStore[u]]

\* a call in flight when an entry was stored returned another entry and
\* replaced the stored one
C3_Witness ==
  \E s, t \in Calls :
    /\ s # t /\ url[s] = url[t]
    /\ pc[s] = "done" /\ pc[t] = "done"
    /\ issued[s] /\ issued[t]
    /\ firstStored[url[s]] = result[s]
    /\ lastStore[url[s]] = t
    /\ result[t] # result[s]
    /\ cache[url[s]] = result[t]

\* ------------------------------------------------------------------------
\* C4
\* ------------------------------------------------------------------------

\* C4: two get(L) calls that both found cache[L] empty and overlap (the
\* second starts before the first has finished) each issue a retrieval, each
\* returns the entry of its own retrieval, and once both have returned the
\* cache holds the entry of the one that returned last.
C4_Race ==
  \A s, t \in Calls :
    (/\ s < t /\ Started(t) /\ url[s] = url[t]
     /\ seen[s] = Undefined /\ seen[t] = Undefined
     /\ ~FinishedBeforeStart(s, t)) =>
      /\ issued[s] /\ issued[t]
      /\ retrievals[url[s]] >= 2
      /\ (pc[s] = "done" /\ pc[t] = "done") =>
           /\ result[s] = Decoded(s)
           /\ result[t] = Decoded(t)
           /\ lastStore[url[s]] \in {s, t} =>
                cache[url[s]] =
                  IF PosOf(s) > PosOf(t) THEN result[s] ELSE result[t]

\* the first caller's retrieval resolved last and its entry is the one cached
C4_Witness ==
  \E s, t \in Calls :
    /\ s < t /\ url[s] = url[t]
    /\ seen[s] = Undefined /\ seen[t] = Undefined
    /\ ~FinishedBeforeStart(s, t)
    /\ pc[s] = "done" /\ pc[t] = "done"
    /\ PosOf(s) > PosOf(t)
    /\ result[s] # result[t]
    /\ cache[url[s]] = result[s]

\* ------------------------------------------------------------------------
\* C5
\* ------------------------------------------------------------------------

\* C5 (as claimed): the first get(L) for a locator L issues a retrieval.
C5_FirstRequest ==
  \A t \in Calls :
    (Started(t) /\ \A s \in Calls : s < t => url[s] # url[t]) =>
      /\ issued[t]
      /\ retrievals[url[t]] >= 1

\* ------------------------------------------------------------------------
\* C6
\* ------------------------------------------------------------------------

\* C6: a non-success response makes the call fail with RetrievalError and
\* store nothing; a get(L) called after that failure while nothing is stored
\* for L issues a new retrieval, and when it succeeds it returns its entry,
\* which the cache holds as long as it is the last stored.
C6_FailureNotCached ==
  /\ \A t \in Calls :
       (resp[t] # NoResp /\ ~Ok(resp[t].status)) =>
         /\ pc[t] = "failed"
         /\ err[t].kind = "RetrievalError"
         /\ ~wrote[t]
         /\ lastStore[url[t]] # t
  /\ \A s, t \in Calls :
       (/\ pc[s] = "failed" /\ err[s].kind = "RetrievalError"
        /\ Started(t) /\ url[t] = url[s]
        /\ FinishedBeforeStart(s, t)
        /\ own[t] = Undefined) =>
         /\ issued[t]
         /\ pc[t] = "done" =>
              /\ result[t] = Decoded(t)
              /\ lastStore[url[t]] = t => cache[url[t]] = result[t]

\* a call failed on a 404, the next call for the locator retrieved again,
\* succeeded and its entry is cached
C6_Witness ==
  \E s, t \in Calls :
    /\ pc[s] = "failed" /\ err[s].kind = "RetrievalError"
    /\ url[t] = url[s] /\ FinishedBeforeStart(s, t)
    /\ issued[t] /\ pc[t] = "done"
    /\ retrievals[url[t]] = 2
    /\ cache[url[t]] = result[t]
    /\ Truthy(result[t])

\* ------------------------------------------------------------------------
\* C7
\* ------------------------------------------------------------------------

\* C7: the step in which a call fails with RetrievalError or DecodeError
\* leaves the whole cache mapping as it was, and a failed call has changed
\* the cache in none of its steps.
C7_FailedLeavesCache ==
  /\ [](\A t \in Calls : pc[t] = "failed" => ~wrote[t])
  /\ [][\A t \in Calls :
          (/\ pc[t] # "failed" /\ pc'[t] = "failed"
           /\ err'[t].kind \in {"RetrievalError", "DecodeError"}) =>
            cache' = cache]_vars

\* a call failed while decoding and another locator's entry is still stored
C7_Witness ==
  \E s, t \in Calls :
    /\ pc[t] = "failed" /\ err[t].kind = "DecodeError"
    /\ pc[s] = "done" /\ url[s] # url[t]
    /\ FinishedBeforeStart(s, t)
    /\ cache[url[s]] = result[s]
    /\ cache[url[t]] = Undefined

\* ------------------------------------------------------------------------
\* C8
\* ------------------------------------------------------------------------

\* C8: a success response that declares JSON and whose body is not a JSON
\* document makes the call fail with DecodeError, and a get(L) called
\* afterwards while nothing is stored for L issues a new retrieval.
C8_Malformed ==
  /\ \A t \in Calls :
       (/\ body[t] # NoBody /\ Ok(resp[t].status)
        /\ IndicatesJSON(resp[t].ctype) /\ Malformed(body[t])) =>
         /\ pc[t] = "failed"
         /\ err[t].kind = "DecodeError"
         /\ result[t] = Undefined
  /\ \A s, t \in Calls :
       (/\ pc[s] = "failed" /\ err[s].kind = "DecodeError"
        /\ Started(t) /\ url[t] = url[s]
        /\ FinishedBeforeStart(s, t)
        /\ own[t] = Undefined) =>
         issued[t]

\* the body "{not valid" declared as JSON failed the call and the next call
\* for the locator retrieved again
C8_Witness ==
  \E s, t \in Calls :
    /\ pc[s] = "failed" /\ err[s].kind = "DecodeError"
    /\ body[s] = "{not valid"
    /\ url[t] = url[s] /\ FinishedBeforeStart(s, t)
    /\ issued[t]
    /\ retrievals[url[s]] = 2

\* ------------------------------------------------------------------------
\* C9
\* ------------------------------------------------------------------------

\* C9: the entry of a successful retrieval is the parsed JSON value when the
\* declared content type indicates JSON and the unmodified text otherwise
\* (also without a content type); a response is awaited as JSON exactly when
\* it declares JSON, and the body of a non-success response is never read.
C9_Decoding ==
  \A t \in Calls :
    /\ (pc[t] = "done" /\ issued[t]) =>
         /\ Ok(resp[t].status)
         /\ IndicatesJSON(resp[t].ctype) =>
              (~Malformed(body[t]) /\ result[t] = JSONParse(body[t]))
         /\ ~IndicatesJSON(resp[t].ctype) =>
              result[t] = [type |-> "string", val |-> body[t]]
    /\ pc[t] \in {"json", "text"} =>
         (pc[t] = "json" <=> IndicatesJSON(resp[t].ctype))
    /\ (resp[t] # NoResp /\ ~Ok(resp[t].status)) =>
         (body[t] = NoBody /\ pc[t] = "failed")

\* one response with a charset-qualified JSON type was decoded, one without
\* a content type was kept as text
C9_Witness ==
  \E s, t \in Calls :
    /\ pc[s] = "done" /\ resp[s].ctype = "application/json; charset=utf-8"
    /\ result[s] = [type |-> "object", val |-> "a=1"]
    /\ pc[t] = "done" /\ issued[t] /\ resp[t].ctype = NoHeader
    /\ body[t] = "{\"a\":1}"
    /\ result[t] = [type |-> "string", val |-> "{\"a\":1}"]

\* ------------------------------------------------------------------------
\* C10
\* ------------------------------------------------------------------------

\* C10 (as claimed): while no get(L) has succeeded the cache holds nothing
\* under L, whatever string L is, so a get(L) called then reads no value and
\* performs a retrieval.
C10_EmptyAtStart ==
  \A t \in Calls :
    (Started(t) /\ own[t] = Undefined) =>
      /\ seen[t] = Undefined
      /\ issued[t]
      /\ (pc[t] = "done" => result[t] = Decoded(t))

\* ------------------------------------------------------------------------
\* C11
\* ------------------------------------------------------------------------

\* C11: no step removes an entry from the cache, and a step changes the
\* entry of a locator only when a get of that locator returns successfully
\* in that step (the entry becomes the value it returns); the entries of all
\* other locators stay as they were.
C11_NoEviction ==
  [][/\ \A u \in DOMAIN cache : cache[u] # Undefined => cache'[u] # Undefined
     /\ \A u \in DOMAIN cache :
          cache'[u] # cache[u] =>
            \E t \in Calls :
              /\ pc[t] \in {"json", "text"} /\ pc'[t] = "done"
              /\ url[t] = u
              /\ cache'[u] = result'[t]]_vars

\* two locators were stored one after the other and both entries are held
C11_Witness ==
  \E s, t \in Calls :
    /\ url[s] = "data/w1.json" /\ url[t] = "data/w1.html"
    /\ pc[s] = "done" /\ pc[t] = "done"
    /\ Truthy(result[s]) /\ Truthy(result[t])
    /\ cache[url[s]] = result[s]
    /\ cache[url[t]] = result[t]

\* ------------------------------------------------------------------------
\* C15
\* ------------------------------------------------------------------------

\* C15: the error thrown for a non-success status has a message that names
\* the requested locator and the status of the response, and no other
\* locator or status yields the same message.
C15_ErrorContent ==
  \A t \in Calls :
    (resp[t] # NoResp /\ ~Ok(resp[t].status)) =>
      /\ err[t].kind = "RetrievalError"
      /\ err[t].message =
           "Failed to load " \o url[t] \o ": " \o ToString(resp[t].status)
      /\ \A u \in DOMAIN cache, st \in Statuses :
           err[t].message = "Failed to load " \o u \o ": " \o ToString(st)
             => (u = url[t] /\ st = resp[t].status)

\* one locator failed with 404 and then with 500
C15_Witness ==
  \E s, t \in Calls :
    /\ err[s].message = "Failed to load data/w1.json: 404"
    /\ err[t].message = "Failed to load data/w1.json: 500"

\* ------------------------------------------------------------------------
\* The exported accessors: lines 564-573
\* ------------------------------------------------------------------------

Accessors == {"loadJSON", "loadHTML", "getRankingsIndex", "getOwners",
              "getWeekData", "getWeekHTML", "getLookback", "getLookbackHTML"}

\* week identifiers passed to getWeekData and getWeekHTML
WeekIds == {"w1"}

\* arguments an accessor is called with
ArgsOf(a) ==
  IF a \in {"loadJSON", "loadHTML"} THEN {"data/w1.json", "data/w1.html"}
  ELSE IF a \in {"getWeekData", "getWeekHTML"} THEN WeekIds
  ELSE {""}

\* the locator each accessor hands to load
LocatorOf(a, x) ==
  CASE a = "loadJSON"         -> x
    [] a = "loadHTML"         -> x
    [] a = "getRankingsIndex" -> "data/rankings.json"
    [] a = "getOwners"        -> "data/owners.json"
    [] a = "getWeekData"      -> "data/" \o x \o ".json"
    [] a = "getWeekHTML"      -> "data/" \o x \o ".html"
    [] a = "getLookback"      -> "data/lookback.json"
    [] a = "getLookbackHTML"  -> "data/lookback_content.html"

\* the locators the accessors can construct from these arguments
AccLocators == UNION {{LocatorOf(a, x) : x \in ArgsOf(a)} : a \in Accessors}

InitAcc == InitLoader(AccLocators) /\ InitPages

\* a call of DataLoader.<a>(x)
Access(t, a, x) ==
  /\ Load(t, LocatorOf(a, x))
  /\ via' = [via EXCEPT ![t] = <<a, x>>]

NextAcc ==
  \/ \E t \in Calls, a \in Accessors : \E x \in ArgsOf(a) : Access(t, a, x)
  \/ \E t \in Calls, st \in Statuses, ct \in ContentTypes : FetchResolve(t, st, ct)
  \/ \E t \in Calls : FetchReject(t)
  \/ \E t \in Calls, b \in Bodies : BodyResolve(t, b)
  \/ \E t \in Calls : BodyReject(t)

SpecAcc == InitAcc /\ [][NextAcc]_vars

\* ------------------------------------------------------------------------
\* C12
\* ------------------------------------------------------------------------

\* C12 (as claimed): every accessor call is a get of its constructed locator
\* on the one cache; after getWeekData(W) has succeeded, a loadJSON of
\* 'data/W.json' that starts while that entry is stored returns it without a
\* retrieval; getWeekData(W) and getWeekHTML(W) never use the same locator.
C12_Accessors ==
  /\ \A t \in Calls :
       Started(t) =>
         /\ url[t] = LocatorOf(via[t][1], via[t][2])
         /\ own[t] = Undefined => issued[t] /\ seen[t] = Undefined
  /\ \A s, t \in Calls :
       (/\ via[s] = <<"getWeekData", "w1">> /\ pc[s] = "done"
        /\ via[t] = <<"loadJSON", "data/w1.json">>
        /\ FinishedBeforeStart(s, t)
        /\ own[t] = result[s]) =>
         /\ ~issued[t]
         /\ pc[t] = "done"
         /\ result[t] = result[s]
  /\ \A s, t \in Calls :
       (via[s][1] = "getWeekData" /\ via[t][1] = "getWeekHTML") =>
         url[s] # url[t]

\* ------------------------------------------------------------------------
\* Scheduling: tasks whose I/O completes are resumed, a stalled one never is
\* ------------------------------------------------------------------------

InFlight == {"fetch", "json", "text"}

\* inputs of the runs checked for progress
FairLocators == {"data/w1.json", "data/w1.html"}
FairStatuses == {200, 404}
FairContentTypes == {"text/html", "application/json"}
FairBodies == {"{\"a\":1}", "{not valid"}

\* the pending fetch or body read of task t never settles (no timeout, no
\* cancellation: nothing in load ends the await)
Stall(t) ==
  /\ pc[t] \in InFlight
  /\ t \notin stalled
  /\ stalled' = stalled \cup {t}
  /\ UNCHANGED <<cache, pc, url, resp, body, result, err, seen, own, issued,
                 wrote, retrievals, finished, nfin, firstStored, lastStore,
                 via, pageVars>>

\* the pending I/O of task t settles and the task runs to its next await
Complete(t) ==
  \/ \E st \in FairStatuses, ct \in FairContentTypes : FetchResolve(t, st, ct)
  \/ FetchReject(t)
  \/ \E b \in FairBodies : BodyResolve(t, b)
  \/ BodyReject(t)

NextFair ==
  \/ \E t \in Calls, u \in FairLocators : Load(t, u) /\ UNCHANGED via
  \/ \E t \in Calls : Complete(t)
  \/ \E t \in Calls : Stall(t)

SpecFair ==
  /\ Init
  /\ [][NextFair]_vars
  /\ \A t \in Calls : WF_vars(Complete(t))

\* ------------------------------------------------------------------------
\* C13
\* ------------------------------------------------------------------------

\* C13: a call whose retrieval never completes stays suspended where it is
\* forever and stores nothing, and every call that is in flight and is not
\* itself stalled eventually returns or throws, whatever the other calls are
\* waiting for.
C13_StallIsolated ==
  /\ [][\A t \in Calls :
          (t \in stalled) => (t \in stalled' /\ pc'[t] = pc[t])]_vars
  /\ \A t \in Calls :
       /\ [](t \in stalled =>
               /\ pc[t] \in InFlight
               /\ ~wrote[t]
               /\ lastStore[url[t]] # t)
       /\ (pc[t] \in InFlight /\ t \notin stalled)
            ~> (pc[t] \in {"done", "failed"} \/ t \in stalled)

\* the first call is stalled and a later call for the same locator returned
C13_Witness ==
  \E s, t \in Calls :
    /\ s < t /\ url[s] = url[t]
    /\ s \in stalled /\ pc[s] = "fetch"
    /\ pc[t] = "done" /\ issued[t]
    /\ cache[url[t]] = result[t]

\* ------------------------------------------------------------------------
\* C14
\* ------------------------------------------------------------------------

\* C14: every call that is not stalled eventually finishes; a finished call
\* whose fetch and body read settled with a response has exactly one outcome,
\* fixed by that response: RetrievalError for a non-success status,
\* DecodeError for a malformed body declared as JSON, the decoded entry
\* otherwise; an error is never replaced by a value and each call issues at
\* most one retrieval.
C14_OutcomeReachesCaller ==
  \A t \in Calls :
    /\ Started(t) ~> (pc[t] \in {"done", "failed"} \/ t \in stalled)
    /\ [](pc[t] = "done" =>
            /\ err[t] = NoErr
            /\ issued[t] =>
                 /\ Ok(resp[t].status) /\ body[t] # NoBody
                 /\ ~(IndicatesJSON(resp[t].ctype) /\ Malformed(body[t]))
                 /\ result[t] = Decoded(t))
    /\ [](pc[t] = "failed" =>
            /\ result[t] = Undefined
            /\ err[t].kind \in {"RetrievalError", "DecodeError", "NetworkError"}
            /\ err[t].kind = "RetrievalError" <=>
                 (resp[t] # NoResp /\ ~Ok(resp[t].status))
            /\ err[t].kind = "DecodeError" <=>
                 (/\ body[t] # NoBody /\ IndicatesJSON(resp[t].ctype)
                  /\ Malformed(body[t])))
    /\ [](Started(t) =>
            retrievals[url[t]] =
              Cardinality({s \in Calls : issued[s] /\ url[s] = url[t]}))

\* one call ended in RetrievalError and another one in DecodeError
C14_Witness ==
  \E s, t \in Calls :
    /\ pc[s] = "failed" /\ err[s].kind = "RetrievalError"
    /\ pc[t] = "failed" /\ err[t].kind = "DecodeError"
    /\ stalled = {}

\* ------------------------------------------------------------------------
\* Rankings browser: docs/js/draft-value.js lines 379-541
\* ------------------------------------------------------------------------

\* number of loadWeek calls made during one run
MaxLoads == 3

\* value of currentWeekId before the first loadWeek (line 388)
Null == "null"

\* contents of data/rankings.json: one index with weeks in every season, one
\* whose newest season has no week yet
RbIndexes ==
  { [seasons |-> <<"2024", "2025">>,
     weeks |-> << [week_id |-> "2024-w1", season |-> "2024"],
                  [week_id |-> "2025-w1", season |-> "2025"],
                  [week_id |-> "2025-w2", season |-> "2025"] >>],
    [seasons |-> <<"2024", "2025">>,
     weeks |-> << [week_id |-> "2024-w1", season |-> "2024"],
                  [week_id |-> "2024-w2", season |-> "2024"] >>] }

\* values of window.location.hash.slice(1) when the page opens
RbHashes == {"", "2024-w1", "2025-w1", "bogus"}

\* the locators of the weekly documents
RbLocators ==
  {LocatorOf("getWeekData", w) : w \in RbWeekIds} \cup
  {LocatorOf("getWeekHTML", w) : w \in RbWeekIds}

\* index.weeks.filter(w => w.season === season)
WeeksOf(index, season) == SelectSeq(index.weeks, LAMBDA w : w.season = season)

\* index.weeks.find(w => w.week_id === id), as the set of matches
FindWeek(index, id) ==
  {index.weeks[i] : i \in {j \in 1..Len(index.weeks) : index.weeks[j].week_id = id}}

\* weekData.week_id of a parsed week document
WeekIdOf(e) == CHOOSE w \in RbWeekIds : e.val = "week_id=" \o w

\* what the panels hold
Empty == [kind |-> "empty", html |-> "", pdf |-> ""]
Loading == [kind |-> "loading", html |-> "", pdf |-> ""]
ErrorPanel(msg) == [kind |-> "error", html |-> msg, pdf |-> ""]

\* one DataLoader call made by loadWeek, up to its first await: lines 549-551
StartPart(c, u) ==
  IF CacheHit(c, u)
  THEN [pc |-> "done", url |-> u, val |-> Lookup(c, u), err |-> NoErr]
  ELSE [pc |-> "fetch", url |-> u, val |-> Undefined, err |-> NoErr]

\* lines 446-470: the continuation of loadWeek after Promise.all settles
Settle(b, k) ==
  LET task == b.loads[k] IN
  IF task.st # "waiting" THEN b
  ELSE IF task.data.pc = "failed" \/ task.html.pc = "failed"
  THEN LET e == IF task.data.pc = "failed" THEN task.data.err ELSE task.html.err
       IN [b EXCEPT !.loads[k].st = "error",
                    !.article = ErrorPanel(e.message)]
  ELSE IF task.data.pc = "done" /\ task.html.pc = "done"
  THEN [b EXCEPT !.loads[k].st = "rendered",
                 !.graphic = WeekIdOf(task.data.val),
                 !.article = [kind |-> "week", html |-> task.html.val.val,
                              pdf |-> WeekIdOf(task.data.val)]]
  ELSE b

\* lines 435-449: loadWeek(weekId) up to await Promise.all, then whatever
\* the microtasks do when both documents are cached
LoadWeek(b, c, w) ==
  LET k == Len(b.loads) + 1
      task == [week |-> w, st |-> "waiting",
               data |-> StartPart(c, LocatorOf("getWeekData", w)),
               html |-> StartPart(c, LocatorOf("getWeekHTML", w))]
      ids == {x.week_id : x \in
                {b.index.weeks[i] : i \in
                   {j \in 1..Len(b.index.weeks) :
                      b.index.weeks[j].season = b.currentSeason}}}
      b1 == [b EXCEPT !.currentWeekId = w,
                      !.pills = [ids |-> ids, active |-> ids \cap {w}],
                      !.hash = w,
                      !.article = Loading,
                      !.loads = Append(@, task)]
  IN Settle(b1, k)

\* lines 484-492: the season toggle handler
SeasonClicked(b, c, season) ==
  LET weeks == WeeksOf(b.index, season)
      b1 == [b EXCEPT !.currentSeason = season, !.seasonActive = season]
  IN IF Len(weeks) > 0 THEN LoadWeek(b1, c, weeks[1].week_id) ELSE b1

\* lines 519-540: initialisation
Booted(b, c, hash) ==
  LET b0 == [b EXCEPT !.phase = "ready", !.seasonActive = b.currentSeason,
                      !.hash = hash]
      found == FindWeek(b.index, hash)
      weeks == WeeksOf(b.index, b.currentSeason)
  IN IF hash # "" /\ found # {}
     THEN LET week == CHOOSE x \in found : TRUE
          IN LoadWeek([b0 EXCEPT !.currentSeason = week.season,
                                 !.seasonActive = week.season], c, hash)
     ELSE IF Len(weeks) > 0 THEN LoadWeek(b0, c, weeks[Len(weeks)].week_id)
     ELSE b0

\* the browser after lines 380-388, before line 519
InitBrowser ==
  /\ InitLoader(RbLocators)
  /\ NoDraftValue /\ NoRosters /\ NoChart
  /\ \E index \in RbIndexes :
       rb = [phase |-> "boot", index |-> index,
             currentSeason |-> "2025", currentWeekId |-> Null,
             seasonActive |-> "", pills |-> [ids |-> {}, active |-> {}],
             hash |-> "", article |-> Empty, graphic |-> "",
             loads |-> <<>>, last |-> [kind |-> "none", arg |-> ""]]

loaderVars == <<cache, pc, url, resp, body, result, err, seen, own, issued,
                wrote, retrievals, finished, nfin, firstStored, lastStore,
                via, stalled>>

\* the page opens with the given URL hash
Boot(hash) ==
  /\ rb.phase = "boot"
  /\ rb' = [Booted(rb, cache, hash) EXCEPT !.last = [kind |-> "boot", arg |-> hash]]
  /\ UNCHANGED <<loaderVars, dvVars, ro, sc>>

\* a click on the season button of season s
SeasonClick(season) ==
  /\ rb.phase = "ready"
  /\ \E i \in 1..Len(rb.index.seasons) : rb.index.seasons[i] = season
  /\ Len(rb.loads) < MaxLoads
  /\ rb' = [SeasonClicked(rb, cache, season) EXCEPT
              !.last = [kind |-> "season", arg |-> season]]
  /\ UNCHANGED <<loaderVars, dvVars, ro, sc>>

\* a click on the pill of week w: lines 495-499
PillClick(w) ==
  /\ rb.phase = "ready"
  /\ w \in rb.pills.ids
  /\ Len(rb.loads) < MaxLoads
  /\ rb' = [LoadWeek(rb, cache, w) EXCEPT !.last = [kind |-> "pill", arg |-> w]]
  /\ UNCHANGED <<loaderVars, dvVars, ro, sc>>

\* the fetch of one document of loadWeek task k resolves: lines 551-559
PartFetched(k, part, status) ==
  /\ k \in 1..Len(rb.loads)
  /\ rb.loads[k][part].pc = "fetch"
  /\ LET p == rb.loads[k][part]
         r == AfterFetch(p.url, status,
                         IF part = "data" THEN "application/json" ELSE "text/html")
         b1 == [rb EXCEPT !.loads[k][part].pc = r.pc,
                          !.loads[k][part].err = r.err]
     IN rb' = Settle(b1, k)
  /\ UNCHANGED <<loaderVars, dvVars, ro, sc>>

\* the body of one document of loadWeek task k has been read: lines 556-561
PartRead(k, part) ==
  /\ k \in 1..Len(rb.loads)
  /\ rb.loads[k][part].pc \in {"json", "text"}
  /\ LET p == rb.loads[k][part]
         w == rb.loads[k].week
         r == AfterBody(cache, p.url, p.pc,
                        IF part = "data" THEN WeekBody(w) ELSE HtmlBody(w))
         b1 == [rb EXCEPT !.loads[k][part].pc = r.pc,
                          !.loads[k][part].err = r.err,
                          !.loads[k][part].val = r.result]
     IN /\ rb' = Settle(b1, k)
        /\ cache' = r.cache
  /\ UNCHANGED <<pc, url, resp, body, result, err, seen, own, issued, wrote,
                 retrievals, finished, nfin, firstStored, lastStore, via,
                 stalled, dvVars, ro, sc>>

NextBrowser ==
  \/ \E h \in RbHashes : Boot(h)
  \/ \E season \in {"2024", "2025"} : SeasonClick(season)
  \/ \E w \in RbWeekIds : PillClick(w)
  \/ \E k \in 1..MaxLoads, part \in {"data", "html"}, st \in {200, 404} :
       PartFetched(k, part, st)
  \/ \E k \in 1..MaxLoads, part \in {"data", "html"} : PartRead(k, part)

SpecBrowser == InitBrowser /\ [][NextBrowser]_vars

\* ------------------------------------------------------------------------
\* C16
\* ------------------------------------------------------------------------

\* C16 (as claimed): when no loadWeek is pending and none has failed, the
\* article panel and the ranking graphic show the week named by
\* currentWeekId.
C16_ShowsCurrentWeek ==
  (/\ rb.phase = "ready"
   /\ rb.currentWeekId # Null
   /\ \A k \in 1..Len(rb.loads) : rb.loads[k].st = "rendered") =>
    /\ rb.graphic = rb.currentWeekId
    /\ rb.article = [kind |-> "week", html |-> HtmlBody(rb.currentWeekId),
                     pdf |-> rb.currentWeekId]

\* ------------------------------------------------------------------------
\* C17
\* ------------------------------------------------------------------------

\* C17 (as claimed): once initialised, currentWeekId names a week of the
\* index whose season is currentSeason; right after initialisation a hash
\* naming a known week has selected that week and its season, any other hash
\* the last week of season 2025.
C17_SeasonWeekConsistent ==
  rb.phase = "ready" =>
    /\ \E i \in 1..Len(rb.index.weeks) :
         /\ rb.index.weeks[i].week_id = rb.currentWeekId
         /\ rb.index.weeks[i].season = rb.currentSeason
    /\ rb.last.kind = "boot" =>
         IF FindWeek(rb.index, rb.last.arg) # {}
         THEN rb.currentWeekId = rb.last.arg
         ELSE /\ rb.currentSeason = "2025"
              /\ LET weeks == WeeksOf(rb.index, "2025")
                 IN Len(weeks) > 0 /\ rb.currentWeekId = weeks[Len(weeks)].week_id

\* ------------------------------------------------------------------------
\* Draft value page: docs/js/draft-value.js lines 4-180
\* ------------------------------------------------------------------------

SEASONS == <<"2022", "2023", "2024", "2025">>

\* key and sort kind of every column (lines 6-15)
COLUMNS ==
  << [key |-> "rank", sort |-> "num"],   [key |-> "player", sort |-> "str"],
     [key |-> "pos", sort |-> "str"],    [key |-> "team", sort |-> "str"],
     [key |-> "cost", sort |-> "num"],   [key |-> "pts", sort |-> "num"],
     [key |-> "ppd", sort |-> "num"],    [key |-> "value", sort |-> "num"] >>

ColumnKeys == {COLUMNS[i].key : i \in 1..Len(COLUMNS)}

\* COLUMNS.find(c => c.key === key).sort
SortKind(key) == (CHOOSE c \in {COLUMNS[i] : i \in 1..Len(COLUMNS)} : c.key = key).sort

Tables == {"best", "worst"}

\* contents of data/draft_value.json: the seasons it has and their players,
\* ordered by value as the file delivers them
DvDataSets == {{"2024", "2025"}, {"2024"}, {"2022", "2023", "2025"}}

DvPlayers(season) ==
  IF season \in {"2022", "2024"}
  THEN << [player |-> "chase", pos |-> "WR", team |-> "cin", cost |-> 40, pts |-> 300, ppd |-> 7, value |-> 20],
          [player |-> "Brown", pos |-> "RB", team |-> "KC", cost |-> 10, pts |-> 150, ppd |-> 15, value |-> 5],
          [player |-> "adams", pos |-> "WR", team |-> "BUF", cost |-> 30, pts |-> 150, ppd |-> 5, value |-> -8] >>
  ELSE << [player |-> "Brown", pos |-> "RB", team |-> "KC", cost |-> 25, pts |-> 280, ppd |-> 11, value |-> 12],
          [player |-> "adams", pos |-> "WR", team |-> "BUF", cost |-> 5, pts |-> 90, ppd |-> 18, value |-> 0],
          [player |-> "chase", pos |-> "WR", team |-> "cin", cost |-> 60, pts |-> 90, ppd |-> 1, value |-> -30] >>

\* position of String(v).toLowerCase() in code-unit order among the strings
\* of the data
LowerOrd(v) ==
  CASE v = "adams" -> 1 [] v = "Brown" -> 2 [] v = "chase" -> 3
    [] v = "BUF" -> 1   [] v = "cin" -> 2   [] v = "KC" -> 3
    [] v = "RB" -> 1    [] v = "WR" -> 2

Reverse(q) == [i \in 1..Len(q) |-> q[Len(q) + 1 - i]]

\* players.slice(0, 25)
Best(players) == SubSeq(players, 1, IF Len(players) < 25 THEN Len(players) ELSE 25)

\* players.slice(-25).reverse()
Worst(players) ==
  Reverse(SubSeq(players, IF Len(players) > 25 THEN Len(players) - 24 ELSE 1,
                 Len(players)))

\* players.indexOf(a)
IndexOf(players, a) == CHOOSE i \in 1..Len(players) : players[i] = a

\* lines 96-101: the value a row is compared by
SortValue(players, a, key) ==
  IF key = "rank" THEN IndexOf(players, a)
  ELSE IF SortKind(key) = "str" THEN LowerOrd(a[key])
  ELSE a[key]

\* line 102: the comparator says a goes before b
Before(players, state, a, b) ==
  IF state.asc
  THEN SortValue(players, a, state.key) < SortValue(players, b, state.key)
  ELSE SortValue(players, a, state.key) > SortValue(players, b, state.key)

\* [...players].sort(comparator): a stable sort
RECURSIVE InsertSorted(_, _, _, _)
InsertSorted(players, state, sorted, a) ==
  IF sorted = <<>> THEN <<a>>
  ELSE IF Before(players, state, a, sorted[Len(sorted)])
       THEN Append(InsertSorted(players, state, SubSeq(sorted, 1, Len(sorted) - 1), a),
                   sorted[Len(sorted)])
       ELSE Append(sorted, a)

RECURSIVE SortRows(_, _, _)
SortRows(players, state, n) ==
  IF n = 0 THEN <<>>
  ELSE InsertSorted(players, state, SortRows(players, state, n - 1), players[n])

\* lines 72-119: renderTable, as the header arrow and the rows it builds
Header(state) == [key |-> state.key, asc |-> state.asc]
Rows(players, state) ==
  LET sorted == SortRows(players, state, Len(players))
  IN [i \in 1..Len(sorted) |-> sorted[i].player]

\* the rows handed to renderTable for a table: lines 67-68
TableRows(tableId, season) ==
  IF tableId = "best" THEN Best(DvPlayers(season)) ELSE Worst(DvPlayers(season))

\* variant: ascending for every text column
ClickSort_StrAsc(state, key) ==
  IF state.key = key THEN [state EXCEPT !.asc = ~state.asc]
  ELSE [key |-> key, asc |-> SortKind(key) = "str"]

\* lines 86-88: the new sort state of a table after a click on column key
ClickSort(state, key) ==
  IF state.key = key THEN [state EXCEPT !.asc = ~state.asc]
  ELSE [key |-> key, asc |-> (key = "player" \/ key = "team")]

\* the page after data/draft_value.json arrived: lines 23-33, 39-70
InitSort ==
  /\ InitLoader(Locators)
  /\ NoBrowser /\ NoRosters /\ NoChart
  /\ dvData \in DvDataSets
  /\ dvSeason = "2025"
  /\ sortState = [t \in Tables |->
                    IF t = "best" THEN [key |-> "value", asc |-> FALSE]
                    ELSE [key |-> "value", asc |-> TRUE]]
  /\ thead = [t \in Tables |->
                IF "2025" \in dvData THEN Header(sortState[t]) ELSE <<>>]
  /\ tbody = [t \in Tables |->
                IF "2025" \in dvData
                THEN [season |-> "2025", rows |-> Rows(TableRows(t, "2025"), sortState[t])]
                ELSE <<>>]
  /\ dvLast = [kind |-> "open", table |-> "", col |-> ""]
  /\ dvPrev = sortState

\* a click on the season button of season s: lines 51-70
SelectSeason(season) ==
  /\ season \in dvData
  /\ dvSeason' = season
  /\ thead' = [t \in Tables |-> Header(sortState[t])]
  /\ tbody' = [t \in Tables |->
                 [season |-> season, rows |-> Rows(TableRows(t, season), sortState[t])]]
  /\ dvLast' = [kind |-> "season", table |-> "", col |-> season]
  /\ dvPrev' = sortState
  /\ UNCHANGED <<dvData, sortState, loaderVars, rb, ro, sc>>

\* a click on the header cell of column key in a rendered table: lines 85-90
HeaderClick(tableId, key) ==
  /\ thead[tableId] # <<>>
  /\ LET state == ClickSort(sortState[tableId], key)
         players == TableRows(tableId, tbody[tableId].season)
     IN /\ sortState' = [sortState EXCEPT ![tableId] = state]
        /\ thead' = [thead EXCEPT ![tableId] = Header(state)]
        /\ tbody' = [tbody EXCEPT ![tableId].rows = Rows(players, state)]
  /\ dvLast' = [kind |-> "click", table |-> tableId, col |-> key]
  /\ dvPrev' = sortState
  /\ UNCHANGED <<dvData, dvSeason, loaderVars, rb, ro, sc>>

NextSort ==
  \/ \E season \in {SEASONS[i] : i \in 1..Len(SEASONS)} : SelectSeason(season)
  \/ \E t \in Tables, key \in ColumnKeys : HeaderClick(t, key)

SpecSort == InitSort /\ [][NextSort]_vars

\* ------------------------------------------------------------------------
\* C18
\* ------------------------------------------------------------------------

\* C18: a header click on the table's current sort column keeps the column
\* and flips the direction; a click on another column makes it the sort
\* column, ascending exactly for 'player' and 'team'; the other table's sort
\* state is left as it was, and a season switch leaves both as they were.
C18_SortState ==
  /\ dvLast.kind = "click" =>
       LET t == dvLast.table
           key == dvLast.col
       IN /\ \A o \in Tables \ {t} : sortState[o] = dvPrev[o]
          /\ sortState[t].key = key
          /\ IF dvPrev[t].key = key
             THEN sortState[t].asc = ~dvPrev[t].asc
             ELSE sortState[t].asc = (key \in {"player", "team"})
          /\ thead[t] = sortState[t]
  /\ dvLast.kind = "season" => sortState = dvPrev

\* the text column 'pos' was clicked on a table sorted by another column and
\* is now sorted descending
C18_Witness ==
  /\ dvLast = [kind |-> "click", table |-> "worst", col |-> "pos"]
  /\ dvPrev["worst"].key = "team"
  /\ sortState["worst"] = [key |-> "pos", asc |-> FALSE]
  /\ sortState["best"] = [key |-> "player", asc |-> FALSE]
  /\ tbody["worst"].rows = <<"chase", "adams", "Brown">>

\* ------------------------------------------------------------------------
\* Rosters page: docs/js/rosters.js lines 4-198
\* ------------------------------------------------------------------------

\* contents of data/rosters_data.json: per season the entries of its teams
\* object, [key, owner] in Object.entries order
RoDataSets ==
  { [s \in {"2024", "2025"} |->
       IF s = "2024"
       THEN << [key |-> "t1", owner |-> "Zed"], [key |-> "t2", owner |-> "amy"],
               [key |-> "t3", owner |-> "Bob"] >>
       ELSE << [key |-> "t4", owner |-> "Cal"], [key |-> "t2", owner |-> "Bob"] >>],
    [s \in {"2023", "2024", "2025"} |->
       IF s = "2023" THEN <<>>
       ELSE IF s = "2024"
       THEN << [key |-> "t1", owner |-> "amy"], [key |-> "t5", owner |-> "Zed"] >>
       ELSE << [key |-> "t6", owner |-> "Zed"], [key |-> "t7", owner |-> "Cal"],
               [key |-> "t8", owner |-> "amy"] >>],
    [s \in {"2022", "2023"} |->
       IF s = "2022"
       THEN << [key |-> "t1", owner |-> "Bob"], [key |-> "t2", owner |-> "amy"] >>
       ELSE << [key |-> "t3", owner |-> "Cal"], [key |-> "t1", owner |-> "Zed"],
               [key |-> "t2", owner |-> "Bob"] >>],
    [s \in {"2022", "2023", "2024", "2025"} |->
       IF s = "2022" THEN << [key |-> "t1", owner |-> "Cal"] >>
       ELSE IF s = "2023"
       THEN << [key |-> "t1", owner |-> "Cal"], [key |-> "t2", owner |-> "Bob"] >>
       ELSE IF s = "2024"
       THEN << [key |-> "t2", owner |-> "Bob"], [key |-> "t3", owner |-> "Zed"],
               [key |-> "t4", owner |-> "amy"] >>
       ELSE << [key |-> "t3", owner |-> "Zed"], [key |-> "t5", owner |-> "Cal"] >>] }

\* keys of data[season].teams
TeamKeys(data, season) == {data[season][i].key : i \in 1..Len(data[season])}

\* position of an owner name in the order of String.prototype.localeCompare
LocaleOrd(owner) ==
  CASE owner = "amy" -> 1 [] owner = "Bob" -> 2 [] owner = "Cal" -> 3
    [] owner = "Zed" -> 4

\* variant: the entries are left in the order of the teams object
SortByOwner_Unsorted(entries, n) == SubSeq(entries, 1, n)

\* line 50: entries[1..n] sorted by (a, b) => a.owner.localeCompare(b.owner)
RECURSIVE SortByOwner(_, _)
SortByOwner(entries, n) ==
  IF n = 0 THEN <<>>
  ELSE LET sorted == SortByOwner(entries, n - 1)
           a == entries[n]
           before == {i \in 1..Len(sorted) :
                        LocaleOrd(sorted[i].owner) <= LocaleOrd(a.owner)}
           k == Cardinality(before)
       IN SubSeq(sorted, 1, k) \o <<a>> \o SubSeq(sorted, k + 1, Len(sorted))

\* contents of #roster-content
Placeholder == "Select a season and team to view rosters."
TeamNotFound == "Team not found."

\* lines 74-105: renderRosters; calls records the arguments it ran with
RenderRosters(r) ==
  LET has == r.currentSeason \in DOMAIN r.data
      call == [season |-> r.currentSeason, key |-> r.currentTeamKey]
  IN [r EXCEPT
        !.calls = call,
        !.content =
          IF ~has \/ r.currentTeamKey = "" THEN Placeholder
          ELSE IF r.currentTeamKey \notin TeamKeys(r.data, r.currentSeason)
               THEN TeamNotFound
               ELSE "roster " \o r.currentSeason \o " " \o r.currentTeamKey]

\* lines 41-72: populateTeams
PopulateTeams(r) ==
  IF r.currentSeason \notin DOMAIN r.data
  THEN [r EXCEPT !.options = <<>>, !.value = ""]
  ELSE LET entries == r.data[r.currentSeason]
           teams == SortByOwner(entries, Len(entries))
           r1 == [r EXCEPT !.options = [i \in 1..Len(teams) |-> teams[i].key],
                           !.value = "",
                           !.listening = TRUE]
       IN IF Len(teams) > 0
          THEN RenderRosters([r1 EXCEPT !.value = teams[1].key,
                                        !.currentTeamKey = teams[1].key])
          ELSE r1

\* lines 33-39: selectSeason
RoSelectSeason(r, season) == PopulateTeams([r EXCEPT !.currentSeason = season])

\* the page after data/rosters_data.json arrived: lines 8-15
InitRosters ==
  /\ InitLoader(Locators)
  /\ NoDraftValue /\ NoBrowser /\ NoChart
  /\ \E data \in RoDataSets :
       ro = RoSelectSeason(
              [data |-> data, currentSeason |-> "2025", currentTeamKey |-> "",
               options |-> <<>>, value |-> "", listening |-> FALSE,
               content |-> "", calls |-> <<>>,
               last |-> [kind |-> "open", arg |-> "2025"], prevKey |-> ""],
              "2025")

\* a click on the season button of a season of the data: line 28
RoSeasonClick(season) ==
  /\ season \in DOMAIN ro.data
  /\ ro' = RoSelectSeason([ro EXCEPT !.last = [kind |-> "season", arg |-> season],
                                     !.prevKey = ro.currentTeamKey],
                          season)
  /\ UNCHANGED <<loaderVars, dvVars, rb, sc>>

\* the user picks another option of #team-select: lines 62-65
RoTeamChange(v) ==
  /\ ro.listening
  /\ v \in {""} \cup {ro.options[i] : i \in 1..Len(ro.options)}
  /\ v # ro.value
  /\ ro' = RenderRosters([ro EXCEPT !.value = v,
                                    !.currentTeamKey = v,
                                    !.last = [kind |-> "change", arg |-> v],
                                    !.prevKey = ro.currentTeamKey])
  /\ UNCHANGED <<loaderVars, dvVars, rb, sc>>

RoOptionValues ==
  {""} \cup UNION {UNION {TeamKeys(d, s) : s \in DOMAIN d} : d \in RoDataSets}

NextRosters ==
  \/ \E season \in {SEASONS[i] : i \in 1..Len(SEASONS)} : RoSeasonClick(season)
  \/ \E v \in RoOptionValues : RoTeamChange(v)

SpecRosters == InitRosters /\ [][NextRosters]_vars

\* ------------------------------------------------------------------------
\* C19
\* ------------------------------------------------------------------------

\* owners of the teams of a season that no other owner of the season precedes
FirstByOwner(data, season) ==
  {data[season][i].key : i \in
     {i \in 1..Len(data[season]) :
        \A j \in 1..Len(data[season]) :
          LocaleOrd(data[season][i].owner) <= LocaleOrd(data[season][j].owner)}}

\* C19: every call of renderRosters runs with currentTeamKey empty or a key
\* of data[currentSeason].teams and never shows 'Team not found'; after
\* selectSeason(s) for a season with at least one team, currentTeamKey is
\* the key of the team whose owner comes first in ascending owner order.
C19_TeamKeyKnown ==
  /\ ro.calls # <<>> =>
       \/ ro.calls.key = ""
       \/ /\ ro.calls.season \in DOMAIN ro.data
          /\ ro.calls.key \in TeamKeys(ro.data, ro.calls.season)
  /\ ro.content # TeamNotFound
  /\ (ro.last.kind \in {"open", "season"}
      /\ ro.currentSeason \in DOMAIN ro.data
      /\ Len(ro.data[ro.currentSeason]) > 0)
       => /\ ro.currentTeamKey \in FirstByOwner(ro.data, ro.currentSeason)
          /\ ro.value = ro.currentTeamKey
          /\ ro.calls = [season |-> ro.currentSeason, key |-> ro.currentTeamKey]

\* a season was selected while a team of another season was shown whose key
\* the new season does not have, and the new season's first owner is not
\* the first entry of its teams object
C19_Witness ==
  /\ ro.last = [kind |-> "season", arg |-> "2025"]
  /\ ro.prevKey = "t5"
  /\ ro.currentTeamKey = "t8"
  /\ ro.data["2025"][1].key = "t6"
  /\ ro.content = "roster 2025 t8"

\* ------------------------------------------------------------------------
\* Stats charts, owner filter: site/js/stats-charts.js lines 60-255
\* ------------------------------------------------------------------------

\* index.weeks
ScWeeks ==
  << [week_id |-> "2024-w1", season |-> "2024", label |-> "Week 1"],
     [week_id |-> "2025-w1", season |-> "2025", label |-> "Week 1"],
     [week_id |-> "2025-w2", season |-> "2025", label |-> "Week 2"] >>

\* mainOwners: names, as their characters, and rankings, in avg_rank order
MainOwners ==
  << [name |-> <<"A", "m", "y">>,
      rankings |-> {[week_id |-> "2024-w1", rank |-> 1], [week_id |-> "2025-w1", rank |-> 2],
                    [week_id |-> "2025-w2", rank |-> 1]}],
     [name |-> <<"B", "o", "b">>,
      rankings |-> {[week_id |-> "2024-w1", rank |-> 2], [week_id |-> "2025-w2", rank |-> 3]}],
     [name |-> <<"A", "b", "e">>,
      rankings |-> {[week_id |-> "2025-w1", rank |-> 1], [week_id |-> "2025-w2", rank |-> 2]}] >>

OwnerIndexes == 1..Len(MainOwners)

\* texts typed into #owner-filter-search, as their characters
ScQueries == {<<>>, <<"a">>, <<"B">>, <<"a", "b">>, <<"z">>}

\* data-season of the buttons of #chart-controls
ScSeasons == {"all", "2024", "2025"}

\* String.prototype.toLowerCase on the characters used
LowerChar(c) == CASE c = "A" -> "a" [] c = "B" -> "b" [] OTHER -> c
ToLowerCase(str) == [i \in 1..Len(str) |-> LowerChar(str[i])]

\* lines 80-83, 237-240, 248-251: the rank of owner i in a week, or null
RankOf(i, weekId) ==
  IF \E r \in MainOwners[i].rankings : r.week_id = weekId
  THEN (CHOOSE r \in MainOwners[i].rankings : r.week_id = weekId).rank
  ELSE Null

RECURSIVE FilterWeeks(_, _)
FilterWeeks(n, season) ==
  IF n = 0 THEN <<>>
  ELSE IF ScWeeks[n].season = season
       THEN Append(FilterWeeks(n - 1, season), ScWeeks[n])
       ELSE FilterWeeks(n - 1, season)

\* lines 233-253: labels and points of the chart for a season selection
ChartData(season) ==
  LET weeks == IF season = "all" THEN ScWeeks ELSE FilterWeeks(Len(ScWeeks), season)
  IN [labels |-> [k \in 1..Len(weeks) |->
                    IF season = "all"
                    THEN weeks[k].season \o " " \o weeks[k].label
                    ELSE weeks[k].label],
      data |-> [i \in OwnerIndexes |->
                  [k \in 1..Len(weeks) |-> RankOf(i, weeks[k].week_id)]]]

\* lines 161-174: updateFilterLabel
FilterLabel(checked) ==
  LET on == {i \in OwnerIndexes : checked[i]}
  IN IF on = OwnerIndexes THEN [text |-> "All Owners", names |-> {}]
     ELSE IF on = {} THEN [text |-> "No Owners", names |-> {}]
     ELSE IF Cardinality(on) <= 3
          THEN [text |-> "names", names |-> {MainOwners[i].name : i \in on}]
          ELSE [text |-> ToString(Cardinality(on)) \o " Owners", names |-> {}]

\* a boolean as stored in meta.hidden, which is null in a new chart
Bool(b) == IF b THEN "true" ELSE "false"

\* variant: only the boxes of the items the search shows are applied
ApplyOwnerFilter_Shown(c) ==
  [c EXCEPT !.hidden = [i \in OwnerIndexes |->
                          IF c.display[i] = "" THEN Bool(~c.checked[i]) ELSE c.hidden[i]],
            !.label = FilterLabel(c.checked)]

\* lines 176-185: applyOwnerFilter
ApplyOwnerFilter(c) ==
  [c EXCEPT !.hidden = [i \in OwnerIndexes |-> Bool(~c.checked[i])],
            !.label = FilterLabel(c.checked)]

\* the stats page after the chart and the checkbox list are built:
\* lines 97-159, 220
InitChart ==
  /\ InitLoader(Locators)
  /\ NoDraftValue /\ NoBrowser /\ NoRosters
  /\ sc = [checked |-> [i \in OwnerIndexes |-> TRUE],
           hidden |-> [i \in OwnerIndexes |-> Null],
           display |-> [i \in OwnerIndexes |-> ""],
           query |-> <<>>,
           label |-> [text |-> "", names |-> {}],
           currentSeason |-> "all",
           chart |-> ChartData("all"),
           last |-> [kind |-> "open", arg |-> ""],
           prevChecked |-> [i \in OwnerIndexes |-> TRUE],
           prevHidden |-> [i \in OwnerIndexes |-> Null]]

\* what every handler leaves behind for the claims: the event and the
\* checked and hidden state before it
Event(c, kind, arg) ==
  [c EXCEPT !.last = [kind |-> kind, arg |-> arg],
            !.prevChecked = c.checked,
            !.prevHidden = c.hidden]

\* the user toggles the checkbox of a shown item: line 187
ScChange(i) ==
  /\ sc.display[i] = ""
  /\ sc' = ApplyOwnerFilter([Event(sc, "change", ToString(i)) EXCEPT
                               !.checked[i] = ~sc.checked[i]])
  /\ UNCHANGED <<loaderVars, dvVars, rb, ro>>

\* lines 189-192
ScSelectAll ==
  /\ sc' = ApplyOwnerFilter([Event(sc, "all", "") EXCEPT
                               !.checked = [i \in OwnerIndexes |-> TRUE]])
  /\ UNCHANGED <<loaderVars, dvVars, rb, ro>>

\* lines 193-196
ScSelectNone ==
  /\ sc' = ApplyOwnerFilter([Event(sc, "none", "") EXCEPT
                               !.checked = [i \in OwnerIndexes |-> FALSE]])
  /\ UNCHANGED <<loaderVars, dvVars, rb, ro>>

\* the user edits the search box to q: lines 212-217
ScSearch(q) ==
  /\ q # sc.query
  /\ sc' = [Event(sc, "search", "") EXCEPT
              !.query = q,
              !.display = [i \in OwnerIndexes |->
                             IF Includes(ToLowerCase(MainOwners[i].name), ToLowerCase(q))
                             THEN "" ELSE "none"]]
  /\ UNCHANGED <<loaderVars, dvVars, rb, ro>>

\* a click on a season button of the chart controls: lines 221-231, 233-255
ScSeasonClick(season) ==
  /\ sc' = [Event(sc, "season", season) EXCEPT
              !.currentSeason = season,
              !.chart = ChartData(season)]
  /\ UNCHANGED <<loaderVars, dvVars, rb, ro>>

NextChart ==
  \/ \E i \in OwnerIndexes : ScChange(i)
  \/ ScSelectAll
  \/ ScSelectNone
  \/ \E q \in ScQueries : ScSearch(q)
  \/ \E season \in ScSeasons : ScSeasonClick(season)

SpecChart == InitChart /\ [][NextChart]_vars

\* ------------------------------------------------------------------------
\* C20
\* ------------------------------------------------------------------------

\* chart dataset i is hidden: its meta.hidden is true (null, the value a new
\* chart has, shows the dataset)
DatasetHidden(c, i) == c.hidden[i] = Bool(TRUE)

\* C20: after any sequence of checkbox changes, select-all, select-none,
\* search input and season clicks, dataset i is hidden exactly when checkbox
\* i is unchecked; search input and season clicks change neither the checked
\* nor the hidden state, and select-all and select-none set every checkbox,
\* those of items the search hides included.
C20_HiddenIffUnchecked ==
  /\ \A i \in OwnerIndexes : DatasetHidden(sc, i) <=> ~sc.checked[i]
  /\ sc.last.kind \in {"search", "season"} =>
       /\ sc.checked = sc.prevChecked
       /\ sc.hidden = sc.prevHidden
  /\ sc.last.kind = "all" => \A i \in OwnerIndexes : sc.checked[i]
  /\ sc.last.kind = "none" => \A i \in OwnerIndexes : ~sc.checked[i]

\* select-all ran while the search hid the item of an unchecked owner, and
\* that owner's dataset is shown again
C20_Witness ==
  /\ sc.last.kind = "all"
  /\ sc.display[2] = "none"
  /\ ~sc.prevChecked[2]
  /\ sc.prevHidden[2] = Bool(TRUE)
  /\ sc.checked[2]
  /\ sc.hidden[2] = Bool(FALSE)
  /\ sc.currentSeason = "2025"

====
